---- MODULE Spec2Model ----
(***************************************************************************)
(* Model of services/image_to_video.py: process_image_to_video and its     *)
(* inner function get_movement_pattern.                                    *)
(*                                                                         *)
(* Numbers that the source treats as Python numbers (length, frame_rate,   *)
(* zoom_speed and the two multipliers) are exact rationals here, written   *)
(* as integer numerators over the common denominator Scale.  Products of   *)
(* two such numbers are numerators over Scale * Scale.  The rounding of    *)
(* binary floating point is not represented.                               *)
(*                                                                         *)
(* An f-string is modelled as the record of its template and of the        *)
(* values interpolated into it, in order.                                  *)
(***************************************************************************)
EXTENDS Integers, Sequences, FiniteSets

\* ---- bounds of the model ----
Scale == 2
MaxDim == 2
MaxLength == 5
MaxFrameRate == 5
MaxZoomSpeed == 1

\* ---- effect control values the source fixes (lines 32-45) ----
SHAKE_INTENSITY_DEFAULT == 8
SHAKE_FREQUENCY_X == 15
SHAKE_FREQUENCY_Y == 18
SHAKE_BORDER == 20
LANDSCAPE_W == 7680
LANDSCAPE_H == 4320
OUT_LONG == 1920
OUT_SHORT == 1080

One == Scale
Sq == Scale * Scale

VARIABLES
    length, frame_rate, zoom_speed,
    img_w, img_h,
    SHAKE_INTENSITY, MOVEMENT_SPEED_MULTIPLIER,
    ENABLE_LINEAR_PANS, ENABLE_DIAGONAL_PANS,
    UPSCALE_QUALITY_BOOST, CUSTOM_SCALE_MULTIPLIER,
    pc, image_on_disk, width, height,
    scale_dims, output_dims, total_frames, zoom_factor,
    patterns, pattern_name, movement, video_filter, cmd,
    result, output_file, ffmpeg_runs, remove_calls,
    raised, returned

args == <<length, frame_rate, zoom_speed, img_w, img_h>>
settings == <<SHAKE_INTENSITY, MOVEMENT_SPEED_MULTIPLIER, ENABLE_LINEAR_PANS,
              ENABLE_DIAGONAL_PANS, UPSCALE_QUALITY_BOOST, CUSTOM_SCALE_MULTIPLIER>>
plan == <<scale_dims, output_dims, total_frames, zoom_factor,
          patterns, pattern_name, movement, video_filter, cmd>>
vars == <<args, settings, pc, image_on_disk, width, height, plan,
          result, output_file, ffmpeg_runs, remove_calls, raised, returned>>

\* ---- Python's int(): truncation toward zero of num/den, den > 0 ----
PyIntRound(num, den) ==
    IF 2 * num >= 0 THEN (2 * num + den) \div (2 * den)
                    ELSE -((-(2 * num) + den) \div (2 * den))

PyInt(num, den) ==
    IF num >= 0 THEN num \div den ELSE -((-num) \div den)

\* ---- get_movement_pattern: the x / y expressions (lines 57-115) ----
SpeedFactorAlways(multiplier) == <<multiplier>>

SpeedFactor(multiplier) ==
    IF multiplier # One THEN <<multiplier>> ELSE <<>>

\* f"(iw-iw/zoom)*on/{total_frames}{speed_factor}", dim is "iw" or "ih"
Forward(dim, tf, sf) ==
    [tmpl |-> "(D-D/zoom)*on/{total_frames}{speed_factor}",
     dim |-> dim, values |-> <<tf>> \o sf]

\* f"(iw-iw/zoom)*(1-on/{total_frames}{speed_factor})"
Reverse(dim, tf, sf) ==
    [tmpl |-> "(D-D/zoom)*(1-on/{total_frames}{speed_factor})",
     dim |-> dim, values |-> <<tf>> \o sf]

\* "iw/2-(iw/zoom/2)"
Centered(dim) ==
    [tmpl |-> "D/2-(D/zoom/2)", dim |-> dim, values |-> <<>>]

LinearKeys == {"left_to_right", "right_to_left", "top_to_bottom", "bottom_to_top"}
DiagonalKeys == {"diagonal_up", "diagonal_down", "diagonal_up_reverse",
                 "diagonal_down_reverse"}

LinearPatterns(tf, sf) ==
    [k \in LinearKeys |->
        CASE k = "left_to_right" ->
                [x |-> Forward("iw", tf, sf), y |-> Centered("ih"),
                 name |-> "Left to Right Pan"]
          [] k = "right_to_left" ->
                [x |-> Reverse("iw", tf, sf), y |-> Centered("ih"),
                 name |-> "Right to Left Pan"]
          [] k = "top_to_bottom" ->
                [x |-> Centered("iw"), y |-> Forward("ih", tf, sf),
                 name |-> "Top to Bottom Pan"]
          [] k = "bottom_to_top" ->
                [x |-> Centered("iw"), y |-> Reverse("ih", tf, sf),
                 name |-> "Bottom to Top Pan"]]

DiagonalPatterns(tf, sf) ==
    [k \in DiagonalKeys |->
        CASE k = "diagonal_up" ->
                [x |-> Forward("iw", tf, sf), y |-> Reverse("ih", tf, sf),
                 name |-> "Diagonal Up (Bottom-Left to Top-Right)"]
          [] k = "diagonal_down" ->
                [x |-> Forward("iw", tf, sf), y |-> Forward("ih", tf, sf),
                 name |-> "Diagonal Down (Top-Left to Bottom-Right)"]
          [] k = "diagonal_up_reverse" ->
                [x |-> Reverse("iw", tf, sf), y |-> Forward("ih", tf, sf),
                 name |-> "Diagonal Up Reverse (Top-Right to Bottom-Left)"]
          [] k = "diagonal_down_reverse" ->
                [x |-> Reverse("iw", tf, sf), y |-> Reverse("ih", tf, sf),
                 name |-> "Diagonal Down Reverse (Bottom-Right to Top-Left)"]]

FallbackScaled(tf) ==
    [k \in {"left_to_right"} |->
        [x |-> Forward("iw", tf, SpeedFactor(MOVEMENT_SPEED_MULTIPLIER)), y |-> Centered("ih"),
         name |-> "Left to Right Pan (Fallback)"]]

FallbackPatterns(tf) ==
    [k \in {"left_to_right"} |->
        [x |-> Forward("iw", tf, <<>>), y |-> Centered("ih"),
         name |-> "Left to Right Pan (Fallback)"]]

\* dict.update
Update(d, e) ==
    [k \in (DOMAIN d) \cup (DOMAIN e) |-> IF k \in DOMAIN e THEN e[k] ELSE d[k]]

EmptyDict == [k \in {} |-> 0]

\* the catalog get_movement_pattern builds before it chooses (lines 56-115)
BuildPatterns(linear, diagonal, tf, multiplier) ==
    LET sf == SpeedFactor(multiplier)
        p1 == IF linear THEN Update(EmptyDict, LinearPatterns(tf, sf)) ELSE EmptyDict
        p2 == IF diagonal THEN Update(p1, DiagonalPatterns(tf, sf)) ELSE p1
    IN  IF DOMAIN p2 = {} THEN FallbackPatterns(tf) ELSE p2

ChoicesFirstOnly(d) == {CHOOSE k \in DOMAIN d : TRUE}

\* random.choice(list(patterns.keys())): every key is a possible outcome
Choices(d) == DOMAIN d

\* ---- orientation, scale target and output resolution (lines 135-153) ----
IsLandscapeOrSquare(w, h) == w >= h

IsLandscape(w, h) == w > h

ScaleDims(w, h, boost, multiplier) ==
    IF IsLandscape(w, h)
    THEN IF boost
         THEN <<PyInt(LANDSCAPE_W * multiplier, Scale), PyInt(LANDSCAPE_H * multiplier, Scale)>>
         ELSE <<LANDSCAPE_W, LANDSCAPE_H>>
    ELSE IF boost
         THEN <<PyInt(LANDSCAPE_H * multiplier, Scale), PyInt(LANDSCAPE_W * multiplier, Scale)>>
         ELSE <<LANDSCAPE_H, LANDSCAPE_W>>

OutputDims(w, h) ==
    IF IsLandscape(w, h) THEN <<OUT_LONG, OUT_SHORT>> ELSE <<OUT_SHORT, OUT_LONG>>

\* ---- total frames and zoom factor (lines 155-157) ----
\* int(length * frame_rate); the product is a numerator over Sq
TotalFramesRounded(len, rate) == PyIntRound(len * rate, Sq)

TotalFrames(len, rate) == PyInt(len * rate, Sq)

\* 1 + (zoom_speed * length), a numerator over Sq
ZoomFactorPerSecond(speed, len) == Sq + speed * Scale

ZoomFactor(speed, len) == Sq + speed * len

\* ---- shake filter (lines 164-171) ----
CropStage(intensity) ==
    [name |-> "crop",
     w |-> [tmpl |-> "iw-{shake_crop_w}", values |-> <<SHAKE_BORDER * 2>>],
     h |-> [tmpl |-> "ih-{shake_crop_h}", values |-> <<SHAKE_BORDER * 2>>],
     x |-> [tmpl |-> "{SHAKE_BORDER}+{SHAKE_INTENSITY}*sin(n*{SHAKE_FREQUENCY_X})",
            values |-> <<SHAKE_BORDER, intensity, SHAKE_FREQUENCY_X>>],
     y |-> [tmpl |-> "{SHAKE_BORDER}+{SHAKE_INTENSITY}*cos(n*{SHAKE_FREQUENCY_Y})",
            values |-> <<SHAKE_BORDER, intensity, SHAKE_FREQUENCY_Y>>]]

ShakeFilterAlways(intensity) == <<CropStage(intensity)>>

ShakeFilter(intensity) ==
    IF intensity > 0 THEN <<CropStage(intensity)>> ELSE <<>>

\* ---- the composed -vf expression (line 185) ----
ZoomExpr(speed, len, tf, zf) ==
    [tmpl |-> "min(1+({zoom_speed}*{length})*on/{total_frames}, {zoom_factor})",
     zoom_speed |-> speed, length |-> len, total_frames |-> tf, zoom_factor |-> zf]

ScaleStage(dims) == [name |-> "scale", dims |-> dims]

ZoompanStage(z, tf, mv, dims) ==
    [name |-> "zoompan", z |-> z, d |-> tf, x |-> mv.x, y |-> mv.y, s |-> dims]

FpsStage(rate) == [name |-> "fps", fps |-> rate]

VideoFilterCropLast(sdims, z, tf, mv, odims, shake, rate) ==
    <<ScaleStage(sdims), ZoompanStage(z, tf, mv, odims), FpsStage(rate)>> \o shake

VideoFilter(sdims, z, tf, mv, odims, shake, rate) ==
    <<ScaleStage(sdims), ZoompanStage(z, tf, mv, odims)>> \o shake \o <<FpsStage(rate)>>

\* The value the renderer computes for the z expression at output frame on,
\* as a numerator over Sq * z.total_frames (z.total_frames > 0).
ZoomAt(z, on) ==
    LET ramp == Sq * z.total_frames + (z.zoom_speed * z.length) * on
        cap  == z.zoom_factor * z.total_frames
    IN  IF ramp <= cap THEN ramp ELSE cap

\* os.path.join(LOCAL_STORAGE_PATH, f"{job_id}.mp4") (line 133)
OutputPath == [dir |-> "LOCAL_STORAGE_PATH", file |-> "{job_id}.mp4"]

\* the argument list handed to subprocess.run (lines 187-191)
Cmd(rate, vf, len) ==
    [framerate |-> rate, i |-> "image_path", vf |-> vf, r |-> rate, t |-> len,
     out |-> OutputPath]

\* ---- exceptions and the renderer's result ----
Diagnostics == {"stderr text A", "stderr text B"}

CompletedProcess(rc, err) == [returncode |-> rc, stdout |-> "", stderr |-> err]

CalledProcessErrorNoText(res, c) ==
    [type |-> "CalledProcessError", returncode |-> res.returncode, cmd |-> c,
     output |-> res.stdout, stderr |-> res.stdout]

\* subprocess.CalledProcessError(result.returncode, cmd, result.stdout, result.stderr)
CalledProcessError(res, c) ==
    [type |-> "CalledProcessError", returncode |-> res.returncode, cmd |-> c,
     output |-> res.stdout, stderr |-> res.stderr]

Exception(type) == [type |-> type]

AfterFFmpegUnchecked(rc) == "rendered"

\* if result.returncode != 0: raise ... (lines 197-199)
AfterFFmpeg(rc) == IF rc # 0 THEN "error" ELSE "rendered"

\* ---- initial states ----
Dims == 1..MaxDim
Lengths == -1..MaxLength
FrameRates == -1..MaxFrameRate
ZoomSpeeds == -1..MaxZoomSpeed

InitRun ==
    /\ pc = "start"
    /\ image_on_disk = FALSE
    /\ width = 0 /\ height = 0
    /\ scale_dims = <<>> /\ output_dims = <<>>
    /\ total_frames = 0 /\ zoom_factor = 0
    /\ patterns = EmptyDict /\ pattern_name = "" /\ movement = <<>>
    /\ video_filter = <<>> /\ cmd = <<>>
    /\ result = <<>> /\ output_file = "none"
    /\ ffmpeg_runs = 0 /\ remove_calls = 0
    /\ raised = <<>> /\ returned = <<>>

\* the settings as the source sets them (lines 32-45)
Init ==
    /\ length \in Lengths /\ frame_rate \in FrameRates /\ zoom_speed \in ZoomSpeeds
    /\ img_w \in Dims /\ img_h \in Dims
    /\ SHAKE_INTENSITY = SHAKE_INTENSITY_DEFAULT
    /\ MOVEMENT_SPEED_MULTIPLIER = One
    /\ ENABLE_LINEAR_PANS = TRUE /\ ENABLE_DIAGONAL_PANS = TRUE
    /\ UPSCALE_QUALITY_BOOST = TRUE /\ CUSTOM_SCALE_MULTIPLIER = One
    /\ InitRun

\* the settings edited within the ranges their comments describe
InitSettings ==
    /\ length \in {One, MaxLength} /\ frame_rate \in {One, MaxFrameRate}
    /\ zoom_speed \in {0, MaxZoomSpeed}
    /\ img_w \in Dims /\ img_h \in Dims
    /\ SHAKE_INTENSITY \in {0, SHAKE_INTENSITY_DEFAULT}
    /\ MOVEMENT_SPEED_MULTIPLIER \in {One, 2 * One}
    /\ ENABLE_LINEAR_PANS \in BOOLEAN /\ ENABLE_DIAGONAL_PANS \in BOOLEAN
    /\ UPSCALE_QUALITY_BOOST \in BOOLEAN /\ CUSTOM_SCALE_MULTIPLIER \in {One, One + 1}
    /\ InitRun

\* ---- process_image_to_video, step by step ----
\* download_file(image_url, LOCAL_STORAGE_PATH) (line 124)
DownloadFile ==
    /\ pc = "start"
    /\ \/ /\ image_on_disk' = TRUE
          /\ pc' = "downloaded"
          /\ UNCHANGED raised
       \/ /\ raised' = <<Exception("DownloadError")>>
          /\ pc' = "error"
          /\ UNCHANGED image_on_disk
    /\ UNCHANGED <<args, settings, width, height, plan, result, output_file,
                   ffmpeg_runs, remove_calls, returned>>

\* with Image.open(image_path) as img: width, height = img.size (lines 128-129)
ImageOpen ==
    /\ pc = "downloaded"
    /\ \/ /\ width' = img_w /\ height' = img_h
          /\ pc' = "opened"
          /\ UNCHANGED raised
       \/ /\ raised' = <<Exception("UnidentifiedImageError")>>
          /\ pc' = "error"
          /\ UNCHANGED <<width, height>>
    /\ UNCHANGED <<args, settings, image_on_disk, plan, result, output_file,
                   ffmpeg_runs, remove_calls, returned>>

\* lines 132-193: everything between opening the image and running ffmpeg;
\* key is the outcome of random.choice
BuildCommand(key) ==
    /\ pc = "opened"
    /\ LET tf    == TotalFrames(length, frame_rate)
           zf    == ZoomFactor(zoom_speed, length)
           pats  == BuildPatterns(ENABLE_LINEAR_PANS, ENABLE_DIAGONAL_PANS, tf,
                                  MOVEMENT_SPEED_MULTIPLIER)
           sdims == ScaleDims(width, height, UPSCALE_QUALITY_BOOST, CUSTOM_SCALE_MULTIPLIER)
           odims == OutputDims(width, height)
       IN  /\ key \in Choices(pats)
           /\ scale_dims' = sdims
           /\ output_dims' = odims
           /\ total_frames' = tf
           /\ zoom_factor' = zf
           /\ patterns' = pats
           /\ pattern_name' = key
           /\ movement' = pats[key]
           /\ video_filter' = VideoFilter(sdims, ZoomExpr(zoom_speed, length, tf, zf), tf,
                                          pats[key], odims, ShakeFilter(SHAKE_INTENSITY),
                                          frame_rate)
           /\ cmd' = Cmd(frame_rate, video_filter', length)
    /\ pc' = "planned"
    /\ UNCHANGED <<args, settings, image_on_disk, width, height, result, output_file,
                   ffmpeg_runs, remove_calls, raised, returned>>

\* subprocess.run(cmd, capture_output=True, text=True) and the status check
\* (lines 196-199).  A failing renderer may or may not have written output.
RunFFmpeg ==
    /\ pc = "planned"
    /\ ffmpeg_runs' = ffmpeg_runs + 1
    /\ \E rc \in {0, 1}, err \in Diagnostics, wrote \in {"none", "partial"} :
          /\ result' = CompletedProcess(rc, err)
          /\ output_file' = IF rc = 0 THEN "complete" ELSE wrote
          /\ pc' = AfterFFmpeg(rc)
          /\ raised' = IF pc' = "error"
                       THEN <<CalledProcessError(result', cmd)>> ELSE raised
    /\ UNCHANGED <<args, settings, image_on_disk, width, height, plan,
                   remove_calls, returned>>

\* os.remove(image_path); return output_path (lines 204-206)
RemoveAndReturn ==
    /\ pc = "rendered"
    /\ remove_calls' = remove_calls + 1
    /\ \/ /\ image_on_disk' = FALSE
          /\ returned' = <<OutputPath>>
          /\ pc' = "done"
          /\ UNCHANGED raised
       \/ /\ raised' = <<Exception("OSError")>>
          /\ pc' = "error"
          /\ UNCHANGED <<image_on_disk, returned>>
    /\ UNCHANGED <<args, settings, width, height, plan, result, output_file, ffmpeg_runs>>

Next ==
    \/ DownloadFile
    \/ ImageOpen
    \/ \E key \in LinearKeys \cup DiagonalKeys : BuildCommand(key)
    \/ RunFFmpeg
    \/ RemoveAndReturn

Spec == Init /\ [][Next]_vars

SpecSettings == InitSettings /\ [][Next]_vars

\* ---- properties ----
Planned == pc \in {"planned", "rendered", "done"} \/ (pc = "error" /\ ffmpeg_runs > 0)
Finished == pc \in {"done", "error"}
AllKeys == LinearKeys \cup DiagonalKeys

\* C1: a request whose duration or frame rate is non-positive never reaches the
\* renderer and ends with an InvalidParameters error; no command whose frame
\* count is zero or negative is handed to the renderer.
C1_InvalidRejectedBeforeRender ==
    /\ (length <= 0 \/ frame_rate <= 0) => ffmpeg_runs = 0
    /\ (length <= 0 \/ frame_rate <= 0) /\ Planned /\ Finished
          => Len(raised) = 1 /\ raised[1].type = "InvalidParameters"
    /\ ffmpeg_runs > 0 => cmd.vf[2].d > 0

\* C2: a wider-than-tall image gets scale target 7680x4320 times the multiplier
\* and output 1920x1080; every other image, square ones included, gets
\* 4320x7680 times the multiplier and output 1080x1920; the filter carries
\* exactly these pairs.
C2_Orientation ==
    Planned =>
        /\ img_w > img_h =>
              /\ scale_dims[1] * Scale = LANDSCAPE_W * CUSTOM_SCALE_MULTIPLIER
              /\ scale_dims[2] * Scale = LANDSCAPE_H * CUSTOM_SCALE_MULTIPLIER
              /\ output_dims = <<OUT_LONG, OUT_SHORT>>
        /\ img_w <= img_h =>
              /\ scale_dims[1] * Scale = LANDSCAPE_H * CUSTOM_SCALE_MULTIPLIER
              /\ scale_dims[2] * Scale = LANDSCAPE_W * CUSTOM_SCALE_MULTIPLIER
              /\ output_dims = <<OUT_SHORT, OUT_LONG>>
        /\ video_filter[1].dims = scale_dims
        /\ video_filter[2].s = output_dims

C2_SquareIsPortrait ==
    /\ pc = "planned" /\ img_w = img_h
    /\ output_dims = <<OUT_SHORT, OUT_LONG>>
    /\ scale_dims = <<LANDSCAPE_H, LANDSCAPE_W>>

\* the frame count an expression divides the frame index by, if it has one
Divisors(e) == IF Len(e.values) > 0 THEN {e.values[1]} ELSE {}

\* C3: for positive duration and frame rate, total_frames is the floor of
\* their product, and that value is the zoompan d=, the divisor of the zoom
\* ramp and the divisor of every progress ratio of the chosen pattern.
C3_TotalFramesIsFloor ==
    Planned /\ length > 0 /\ frame_rate > 0 =>
        /\ total_frames * Sq <= length * frame_rate
        /\ length * frame_rate < (total_frames + 1) * Sq
        /\ video_filter[2].d = total_frames
        /\ video_filter[2].z.total_frames = total_frames
        /\ Divisors(video_filter[2].x) \cup Divisors(video_filter[2].y) = {total_frames}

C3_FractionDropped ==
    /\ pc = "planned" /\ length > 0 /\ frame_rate > 0
    /\ 2 * ((length * frame_rate) % Sq) >= Sq
    /\ total_frames >= 1
    /\ video_filter[2].d = total_frames

\* C4: the catalog is never empty; with both families disabled it is exactly
\* left_to_right, whose x expression divides by total_frames with no speed
\* factor, whatever the speed multiplier is.
C4_CatalogNonEmpty ==
    Planned =>
        /\ DOMAIN patterns # {}
        /\ ~ENABLE_LINEAR_PANS /\ ~ENABLE_DIAGONAL_PANS =>
              /\ DOMAIN patterns = {"left_to_right"}
              /\ patterns["left_to_right"].x.values = <<total_frames>>
              /\ patterns["left_to_right"].x.dim = "iw"
              /\ patterns["left_to_right"].x.tmpl
                    = "(D-D/zoom)*on/{total_frames}{speed_factor}"

C4_FallbackUsed ==
    /\ pc = "planned"
    /\ ~ENABLE_LINEAR_PANS /\ ~ENABLE_DIAGONAL_PANS
    /\ MOVEMENT_SPEED_MULTIPLIER # One
    /\ pattern_name = "left_to_right"
    /\ movement.name = "Left to Right Pan (Fallback)"

\* C5: the chosen pattern is a key of the catalog built in the same call, and
\* with both families enabled each of the 8 keys is a possible choice.
C5_SelectionInCatalog ==
    /\ Planned => /\ pattern_name \in DOMAIN patterns
                  /\ movement = patterns[pattern_name]
    /\ pc = "opened" /\ ENABLE_LINEAR_PANS /\ ENABLE_DIAGONAL_PANS
          => \A k \in AllKeys : ENABLED BuildCommand(k)

C5_LastKeyChosen ==
    /\ pc = "planned" /\ ENABLE_LINEAR_PANS /\ ENABLE_DIAGONAL_PANS
    /\ pattern_name = "diagonal_down_reverse"
    /\ Cardinality(DOMAIN patterns) = 8

StageNames(vf) == [i \in 1..Len(vf) |-> vf[i].name]

\* C6: the filter is scale, zoompan, crop, fps in this order when the shake
\* intensity is positive, and scale, zoompan, fps otherwise.
C6_StageOrder ==
    Planned =>
        StageNames(video_filter) =
            IF SHAKE_INTENSITY > 0 THEN <<"scale", "zoompan", "crop", "fps">>
                                   ELSE <<"scale", "zoompan", "fps">>

C6_NoShakeStage ==
    /\ pc = "planned" /\ SHAKE_INTENSITY = 0
    /\ Len(video_filter) = 3

\* C7: when the renderer returns a non-zero status the call ends with an error
\* that carries the renderer's diagnostic text as it was captured, no output
\* path is returned, and the renderer has run exactly once.
C7_RenderFailureSurfaced ==
    /\ ffmpeg_runs <= 1
    /\ ffmpeg_runs > 0 /\ result.returncode # 0 =>
          /\ pc = "error"
          /\ Len(raised) = 1
          /\ raised[1].type = "CalledProcessError"
          /\ raised[1].stderr = result.stderr
          /\ raised[1].returncode = result.returncode
          /\ returned = <<>>

C7_RenderFailed ==
    /\ pc = "error" /\ ffmpeg_runs = 1
    /\ result.returncode = 1 /\ result.stderr = "stderr text B"

\* C8: when the call has ended with an error, no output file exists at the
\* output path.
C8_NoOutputOnFailure == pc = "error" => output_file = "none"

\* C9: a returned output path implies the source image was removed; removal
\* is attempted only after the renderer returned status zero, and never in a
\* run whose download, image open or render failed.
C9_CleanupOnlyAfterSuccess ==
    /\ Len(returned) = 1 => ~image_on_disk /\ remove_calls = 1
    /\ remove_calls > 0 => ffmpeg_runs = 1 /\ result.returncode = 0
    /\ Len(raised) = 1
         /\ raised[1].type \in {"DownloadError", "UnidentifiedImageError",
                                "CalledProcessError"}
         => remove_calls = 0

C9_Returned ==
    /\ pc = "done" /\ returned = <<OutputPath>>
    /\ ~image_on_disk /\ remove_calls = 1

\* C10: for positive duration and frame rate, total_frames > 0 and
\* zoom_speed >= 0, the zoom value is 1 at frame 0, does not decrease from one
\* frame to the next, never exceeds 1 + zoom_speed * duration, and equals it at
\* frame total_frames.
C10_ZoomRamp ==
    Planned /\ length > 0 /\ frame_rate > 0 /\ total_frames > 0 /\ zoom_speed >= 0 =>
        LET z     == video_filter[2].z
            final == (Sq + zoom_speed * length) * total_frames
        IN  /\ ZoomAt(z, 0) = Sq * total_frames
            /\ \A on \in 0..(total_frames - 1) : ZoomAt(z, on) <= ZoomAt(z, on + 1)
            /\ \A on \in 0..total_frames : ZoomAt(z, on) <= final
            /\ ZoomAt(z, total_frames) = final

C10_RampReached ==
    /\ pc = "planned" /\ length > One /\ frame_rate > 0
    /\ total_frames >= 2 /\ zoom_speed > 0
    /\ ZoomAt(video_filter[2].z, 1) > ZoomAt(video_filter[2].z, 0)

====
